---- MODULE Spec2Model ----
(***************************************************************************)
(* Light-tree direct lighting of intern/cycles/kernel/kernel_path_surface.h *)
(* as a state machine: split(), accum_light_tree_contribution() and        *)
(* accum_light_contribution().                                              *)
(*                                                                         *)
(* Arithmetic.  TLC has no floating point.  A float or double is modelled  *)
(* as an exact extended rational <<n, d>>: d > 0 is the reduced fraction   *)
(* n/d, <<1,0>> and <<-1,0>> are +inf and -inf, <<0,0>> is NaN.  The       *)
(* operations follow IEEE 754 for the special values (0/0 = NaN, x/0 = inf,*)
(* inf*0 = NaN, comparisons with NaN are false); rounding is not modelled, *)
(* so every statement below is one about exact arithmetic.                 *)
(***************************************************************************)
EXTENDS Integers, Sequences, FiniteSets, TLC

VARIABLES
    splitting_threshold,  \* kernel_data.integrator.splitting_threshold
    light_tree_nodes,     \* __light_tree_nodes: the flattened light BVH (float4 texture)
    sd_P,                 \* sd->P, the shading point
    throughput,           \* the path throughput handed to the traversal
    stack,                \* pending invocations of accum_light_tree_contribution, innermost first
    L,                    \* PathRadiance: the radiance accumulator
    num_lights,           \* *num_lights, diagnostics counter
    num_lights_fail,      \* *num_lights_fail, diagnostics counter
    calls,                \* history: the accum_light_contribution calls made, in order
    visited,              \* history: node offsets visited, in order
    ev,                   \* history: what the last step did and the values it read
    u0,                   \* the randu the traversal was started with
    pdf0,                 \* the pdf_factor the traversal was started with
    lost,                 \* the pdf_factor of the branches aborted for zero importance
    twin,                 \* a second traversal of the same inputs whose counters start elsewhere
    use_light_bvh,        \* kernel_data.integrator.use_light_bvh
    state,                \* PathState: bounce, ray_pdf, min_ray_pdf, ray_t, volume_stack
    ray,                  \* Ray: the next path segment
    paths                 \* the traversals of the paths traced concurrently, one record each

vars == <<splitting_threshold, light_tree_nodes, sd_P, throughput, stack, L,
          num_lights, num_lights_fail, calls, visited, ev, u0, pdf0, lost, twin,
          use_light_bvh, state, ray, paths>>

(***************************************************************************)
(* float / double arithmetic                                               *)
(***************************************************************************)
Abs(i) == IF i < 0 THEN -i ELSE i

Sign(i) == IF i < 0 THEN -1 ELSE IF i > 0 THEN 1 ELSE 0

RECURSIVE GCD(_, _)
GCD(a, b) == IF b = 0 THEN a ELSE GCD(b, a % b)

\* the float n/d, reduced; a zero denominator gives inf, -inf or NaN
F(n, d) ==
    IF d = 0 THEN <<Sign(n), 0>>
    ELSE LET g == GCD(Abs(n), Abs(d))
         IN  <<(Sign(d) * n) \div g, Abs(d) \div g>>

NaN == <<0, 0>>

Zero == <<0, 1>>

One == <<1, 1>>

is_nan(x) == x = NaN

is_finite(x) == x[2] # 0

\* Each operation takes the value of its operands once (a \in {x}), so
\* that an operand which is itself a long expression is evaluated once.
fneg(x) == CHOOSE r \in {<<-a[1], a[2]>> : a \in {x}} : TRUE

\* x * y, cancelling across before multiplying
fmul(x, y) ==
    CHOOSE r \in
        { IF a[2] = 0 \/ b[2] = 0 \/ a[1] = 0 \/ b[1] = 0 THEN F(a[1] * b[1], a[2] * b[2])
          ELSE LET g1 == GCD(Abs(a[1]), b[2])
                   g2 == GCD(Abs(b[1]), a[2])
               IN  <<(a[1] \div g1) * (b[1] \div g2), (a[2] \div g2) * (b[2] \div g1)>>
          : a \in {x}, b \in {y} } : TRUE

\* x + y; inf + (-inf) is NaN
fadd(x, y) ==
    CHOOSE r \in
        { IF a[2] = 0 /\ b[2] = 0
          THEN (IF a[1] = b[1] THEN a ELSE NaN)
          ELSE IF a[2] = 0 \/ b[2] = 0 THEN F(a[1] * b[2] + b[1] * a[2], 0)
          ELSE LET g == GCD(a[2], b[2])
               IN  F(a[1] * (b[2] \div g) + b[1] * (a[2] \div g), (a[2] \div g) * b[2])
          : a \in {x}, b \in {y} } : TRUE

fsub(x, y) == fadd(x, fneg(y))

\* 1/x (the zero of the model is +0, so 1/0 = +inf)
frecip(x) == CHOOSE r \in {F(a[2], a[1]) : a \in {x}} : TRUE

fdiv(x, y) == fmul(x, frecip(y))

\* x <= y, false when either is NaN
fle(x, y) ==
    \E a \in {x}, b \in {y} :
        /\ a # NaN
        /\ b # NaN
        /\ IF a[2] = 0 /\ b[2] = 0 THEN a[1] <= b[1]
           ELSE IF a[2] = 0 \/ b[2] = 0 THEN a[1] * b[2] <= b[1] * a[2]
           ELSE LET g == GCD(a[2], b[2])
                IN  a[1] * (b[2] \div g) <= b[1] * (a[2] \div g)

\* x < y, false when either is NaN
flt(x, y) == \E a \in {x}, b \in {y} : a # NaN /\ b # NaN /\ ~fle(b, a)

\* x == y, false when either is NaN
feq(x, y) == \E a \in {x}, b \in {y} : a # NaN /\ b # NaN /\ a = b

\* the largest r of lo..hi with r * r <= n, by bisection
RECURSIVE SqrtSearch(_, _, _)
SqrtSearch(n, lo, hi) ==
    IF lo >= hi THEN lo
    ELSE IF ((lo + hi + 1) \div 2) * ((lo + hi + 1) \div 2) <= n
         THEN SqrtSearch(n, (lo + hi + 1) \div 2, hi)
         ELSE SqrtSearch(n, lo, ((lo + hi + 1) \div 2) - 1)

\* floor(sqrt(n)); 46340 is the largest root of a 32-bit signed integer
SqrtFloor(n) == SqrtSearch(n, 0, IF n < 46340 THEN n ELSE 46340)

IsSquare(n) == \E r \in {SqrtFloor(n)} : r * r = n

ISqrt(n) == CHOOSE r \in {SqrtFloor(n)} : r * r = n

\* sqrt(x).  The model evaluates it only where the root is rational (the
\* geometry of Init is drawn from such points); sqrt of a negative number
\* or of NaN is NaN.
fsqrt(x) ==
    CHOOSE r \in
        { IF a = NaN \/ a[1] < 0 THEN NaN
          ELSE IF a[2] = 0 THEN a
          ELSE <<ISqrt(a[1]), ISqrt(a[2])>>
          : a \in {x} } : TRUE

HasRationalRoot(x) ==
    \E a \in {x} : a[2] # 0 /\ a[1] >= 0 /\ IsSquare(a[1]) /\ IsSquare(a[2])

\* float3
make_float3(x, y, z) == <<x, y, z>>

v_add(a, b) ==
    CHOOSE r \in {<<fadd(p[1], q[1]), fadd(p[2], q[2]), fadd(p[3], q[3])>>
                  : p \in {a}, q \in {b}} : TRUE

v_sub(a, b) ==
    CHOOSE r \in {<<fsub(p[1], q[1]), fsub(p[2], q[2]), fsub(p[3], q[3])>>
                  : p \in {a}, q \in {b}} : TRUE

v_scale(s, a) ==
    CHOOSE r \in {<<fmul(t, p[1]), fmul(t, p[2]), fmul(t, p[3])>>
                  : t \in {s}, p \in {a}} : TRUE

len_squared(a) ==
    CHOOSE r \in {fadd(fadd(fmul(p[1], p[1]), fmul(p[2], p[2])), fmul(p[3], p[3]))
                  : p \in {a}} : TRUE

(***************************************************************************)
(* The light tree: nodes of four float4 each.                              *)
(*   node0 = (energy, secondChildOffset, distribution_id, num_emitters)    *)
(*   node1 = (bboxMin.x, bboxMin.y, bboxMin.z, bboxMax.x)                  *)
(*   node2 = (bboxMax.y, bboxMax.z, -, -)                                  *)
(*   node3 = (-, -, -, e_variance)                                         *)
(* The integers of node0 are stored as integers (__float_as_int).          *)
(***************************************************************************)
kernel_tex_fetch(tex, index) == tex[index + 1]

\* update_parent_node(kg, offset, &secondChildOffset, &distribution_id, &num_emitters)
update_parent_node(kg, node_offset) ==
    LET node == kernel_tex_fetch(kg.light_tree_nodes, node_offset)
    IN  [secondChildOffset |-> node[2],
         distribution_id   |-> node[3],
         num_emitters      |-> node[4]]

(***************************************************************************)
(* split(): go down both children or only one                              *)
(***************************************************************************)
split_bboxMin(kg, node_offset) ==
    LET node1 == kernel_tex_fetch(kg.light_tree_nodes, node_offset + 1)
    IN  make_float3(node1[1], node1[2], node1[3])

split_bboxMax(kg, node_offset) ==
    LET node1 == kernel_tex_fetch(kg.light_tree_nodes, node_offset + 1)
        node2 == kernel_tex_fetch(kg.light_tree_nodes, node_offset + 2)
    IN  make_float3(node1[4], node2[1], node2[2])

split_centroid(kg, node_offset) ==
    v_scale(F(1, 2), v_add(split_bboxMax(kg, node_offset), split_bboxMin(kg, node_offset)))

split_radius_squared(kg, node_offset) ==
    len_squared(v_sub(split_bboxMax(kg, node_offset), split_centroid(kg, node_offset)))

split_dist_squared(kg, P, node_offset) ==
    len_squared(v_sub(split_centroid(kg, node_offset), P))

\* g_mean = 1.0 / (a * b)  (eq. 8)
split_g_mean(a, b) == fdiv(One, fmul(a, b))

\* g_variance = (b3 - a3) / (3.0 * (b - a) * a3 * b3) - g_mean_squared  (eq. 9)
split_g_variance(a, b, a3, b3, g_mean_squared) ==
    fsub(fdiv(fsub(b3, a3), fmul(fmul(fmul(F(3, 1), fsub(b, a)), a3), b3)),
         g_mean_squared)

\* (e_variance * (g_variance + g_mean_squared) + e_mean_squared * g_variance)
\*     * num_emitters_squared  (eq. 10)
split_variance_eq10(e_variance, e_mean_squared, g_variance, g_mean_squared, num_emitters_squared) ==
    fmul(fadd(fmul(e_variance, fadd(g_variance, g_mean_squared)),
              fmul(e_mean_squared, g_variance)),
         num_emitters_squared)

\* the variance over the interval [a, b] of distances to the cluster
split_variance_ab(a, b, energy, e_variance, num_emitters) ==
    split_variance_eq10(
        e_variance,
        fmul(fdiv(energy, num_emitters), fdiv(energy, num_emitters)),
        split_g_variance(a, b, fmul(fmul(a, a), a), fmul(fmul(b, b), b),
                         fmul(split_g_mean(a, b), split_g_mean(a, b))),
        fmul(split_g_mean(a, b), split_g_mean(a, b)),
        fmul(num_emitters, num_emitters))

\* a = dist - radius, b = dist + radius
split_variance_at(radius, dist, energy, e_variance, num_emitters) ==
    split_variance_ab(fsub(dist, radius), fadd(dist, radius), energy, e_variance,
                      num_emitters)

\* the local `variance` of split(), reached when P is outside the bounding
\* sphere: energy is node0[0], e_variance node3[3], num_emitters node0[3]
split_variance(kg, P, node_offset) ==
    split_variance_at(
        fsqrt(split_radius_squared(kg, node_offset)),
        fsqrt(split_dist_squared(kg, P, node_offset)),
        kernel_tex_fetch(kg.light_tree_nodes, node_offset)[1],
        kernel_tex_fetch(kg.light_tree_nodes, node_offset + 3)[4],
        F(kernel_tex_fetch(kg.light_tree_nodes, node_offset)[4], 1))

\* the comparison of the score with the threshold turned round
variance_normalized_above(variance, threshold) ==
    LET t2 == fmul(threshold, threshold)
        k  == fsub(frecip(fmul(t2, t2)), One)
    IN  IF is_nan(variance) \/ is_nan(threshold) \/ flt(variance, Zero) THEN FALSE
        ELSE IF ~is_finite(variance) THEN FALSE
        ELSE IF fle(threshold, Zero) THEN TRUE
        ELSE flt(Zero, k) /\ flt(variance, fmul(k, k))

\* sqrt(sqrt(1.0 / (1.0 + sqrt(variance)))) < threshold.  The fourth root is
\* irrational in general; for 0 <= variance < inf and threshold > 0 the
\* comparison is decided exactly by
\*    score < t  <=>  1/(1 + sqrt(v)) < t^4  <=>  sqrt(v) > 1/t^4 - 1
\*               <=>  1/t^4 - 1 < 0  \/  v > (1/t^4 - 1)^2.
\* A NaN or negative variance makes the score NaN and the comparison false;
\* an infinite variance makes the score 0.
variance_normalized_below(variance, threshold) ==
    LET t2 == fmul(threshold, threshold)
        k  == fsub(frecip(fmul(t2, t2)), One)
    IN  IF is_nan(variance) \/ is_nan(threshold) \/ flt(variance, Zero) THEN FALSE
        ELSE IF ~is_finite(variance) THEN flt(Zero, threshold)
        ELSE IF fle(threshold, Zero) THEN FALSE
        ELSE flt(k, Zero) \/ flt(fmul(k, k), variance)

\* split() without its exit for threshold == 1.0
split_no_always(kg, P, node_offset) ==
    LET threshold == kg.splitting_threshold
    IN  IF feq(threshold, Zero) THEN FALSE
        ELSE IF fle(split_dist_squared(kg, P, node_offset), split_radius_squared(kg, node_offset))
             THEN TRUE
        ELSE variance_normalized_below(split_variance(kg, P, node_offset), threshold)

\* split() without its bounding-sphere test
split_no_sphere(kg, P, node_offset) ==
    LET threshold == kg.splitting_threshold
    IN  IF feq(threshold, Zero) THEN FALSE
        ELSE IF feq(threshold, One) THEN TRUE
        ELSE variance_normalized_below(split_variance(kg, P, node_offset), threshold)

split(kg, P, node_offset) ==
    LET threshold == kg.splitting_threshold
    IN  IF feq(threshold, Zero) THEN FALSE
        ELSE IF feq(threshold, One) THEN TRUE
        ELSE IF fle(split_dist_squared(kg, P, node_offset), split_radius_squared(kg, node_offset))
             THEN TRUE
        ELSE variance_normalized_below(split_variance(kg, P, node_offset), threshold)

(***************************************************************************)
(* accum_light_contribution(): the direct light connection                 *)
(***************************************************************************)
\* path_radiance_accum_light(L, state, throughput, bsdf_eval, shadow, shadow_fac, is_lamp):
\* the unoccluded sample goes to the visible radiance (and to the total)
path_radiance_accum_light(Lacc, tp, L_light, shadow, shadow_fac) ==
    [direct     |-> fadd(Lacc.direct, fmul(fmul(tp, L_light), shadow)),
     path_total |-> fadd(Lacc.path_total, fmul(tp, L_light)),
     shadow     |-> fadd(Lacc.shadow, fmul(shadow, shadow_fac))]

\* path_radiance_accum_total_light(L, state, throughput, bsdf_eval):
\* the occluded sample goes to the total-light channel only
path_radiance_accum_total_light(Lacc, tp, L_light) ==
    [Lacc EXCEPT !.path_total = fadd(Lacc.path_total, fmul(tp, L_light))]

\* accum_light_contribution() applying the scale to the throughput twice
accum_light_contribution_scale_twice(Lacc, in, tp, scale) ==
    IF in.emission
    THEN IF ~in.blocked
         THEN path_radiance_accum_light(Lacc, fmul(fmul(tp, scale), scale), in.L_light,
                                        in.shadow, scale)
         ELSE path_radiance_accum_total_light(Lacc, fmul(tp, scale), in.L_light)
    ELSE Lacc

\* accum_light_contribution() recording the total light of a degenerate sample
accum_light_contribution_total_always(Lacc, in, tp, scale) ==
    IF in.emission
    THEN IF ~in.blocked
         THEN path_radiance_accum_light(Lacc, fmul(tp, scale), in.L_light, in.shadow, scale)
         ELSE path_radiance_accum_total_light(Lacc, fmul(tp, scale), in.L_light)
    ELSE path_radiance_accum_total_light(Lacc, fmul(tp, scale), in.L_light)

\* accum_light_contribution() with the two shadow branches exchanged
accum_light_contribution_swapped(Lacc, in, tp, scale) ==
    IF in.emission
    THEN IF in.blocked
         THEN path_radiance_accum_light(Lacc, fmul(tp, scale), in.L_light, in.shadow, scale)
         ELSE path_radiance_accum_total_light(Lacc, fmul(tp, scale), in.L_light)
    ELSE Lacc

\* in.emission is what direct_emission() returns, in.L_light the BsdfEval it
\* fills in (already divided by ls->pdf), in.blocked what shadow_blocked()
\* returns and in.shadow the transmittance it fills in.
accum_light_contribution(Lacc, in, tp, scale) ==
    IF in.emission
    THEN IF ~in.blocked
         THEN path_radiance_accum_light(Lacc, fmul(tp, scale), in.L_light, in.shadow, scale)
         ELSE path_radiance_accum_total_light(Lacc, fmul(tp, scale), in.L_light)
    ELSE Lacc

(***************************************************************************)
(* accum_light_tree_contribution(): one invocation per step.  The recursion *)
(* is the stack of pending invocations; a frame holds the arguments of one *)
(* invocation, and lo, hi: the interval of initial randu values that take  *)
(* the same stochastic choices down to this frame.                         *)
(***************************************************************************)
child_offsetL(offset) == offset + 4

child_offsetR(secondChildOffset) == 4 * secondChildOffset

is_leaf(node) == node.secondChildOffset = -1

\* a leaf of several emitters taken for a leaf of one
single_emitter_or_more(node) == node.num_emitters >= 1

single_emitter(node) == node.num_emitters = 1

\* ls.pdf *= pdf_factor
combine_pdfs(ls_pdf, pdf_factor) == fmul(ls_pdf, pdf_factor)

\* the zero test left out
pdf_never_zero(ls_pdf) == FALSE

\* ls.pdf == 0.0f
pdf_is_zero(ls_pdf) == feq(ls_pdf, Zero)

\* split() asked whatever can_split says
go_down_both_ignoring_can_split(kg, can_split, P, offset) == split(kg, P, offset)

\* can_split && split(kg, P, offset)
go_down_both(kg, can_split, P, offset) == can_split /\ split(kg, P, offset)

\* the zero-importance test left out
both_zero_never(I_L, I_R) == FALSE

\* (I_L == 0.0f) && (I_R == 0.0f)
both_zero(I_L, I_R) == feq(I_L, Zero) /\ feq(I_R, Zero)

calc_P_L(I_L, I_R) == fdiv(I_L, fadd(I_L, I_R))

\* randu <= P_L
going_left(randu, P_L) == fle(randu, P_L)

rescale_left(randu, P_L) == fdiv(randu, P_L)

\* the right rescale without its division by I_R
rescale_right_undivided(randu, I_L, I_R) == fsub(fmul(randu, fadd(I_L, I_R)), I_L)

rescale_right(randu, I_L, I_R) == fdiv(fsub(fmul(randu, fadd(I_L, I_R)), I_L), I_R)

pdf_factor_left(pdf_factor, P_L) == fmul(pdf_factor, P_L)

\* the right child given the left child's probability
pdf_factor_right_as_left(pdf_factor, P_L) == fmul(pdf_factor, P_L)

pdf_factor_right(pdf_factor, P_L) == fmul(pdf_factor, fsub(One, P_L))

Frame(offset, randu, randv, pdf_factor, can_split, lo, hi) ==
    [offset |-> offset, randu |-> randu, randv |-> randv,
     pdf_factor |-> pdf_factor, can_split |-> can_split, lo |-> lo, hi |-> hi]

\* the leaf branch, sampling only while no light has been counted yet
visit_leaf_first_only(R, f, node, in, tp) ==
    IF single_emitter(node) /\ R.num_lights = 0
    THEN LET ls_pdf == combine_pdfs(in.ls_pdf, f.pdf_factor)
         IN  IF pdf_is_zero(ls_pdf)
             THEN [R EXCEPT !.stack = Tail(R.stack),
                            !.num_lights = R.num_lights + 1]
             ELSE [R EXCEPT !.stack = Tail(R.stack),
                            !.num_lights = R.num_lights + 1,
                            !.L = accum_light_contribution(R.L, in, tp, One),
                            !.calls = Append(R.calls,
                                [offset |-> f.offset, light |-> node.distribution_id,
                                 randu |-> f.randu, randv |-> f.randv,
                                 pdf |-> ls_pdf, scale |-> One])]
    ELSE [R EXCEPT !.stack = Tail(R.stack)]

\* the leaf branch
visit_leaf(R, f, node, in, tp) ==
    IF single_emitter(node)
    THEN LET ls_pdf == combine_pdfs(in.ls_pdf, f.pdf_factor)
         IN  IF pdf_is_zero(ls_pdf)
             THEN [R EXCEPT !.stack = Tail(R.stack),
                            !.num_lights = R.num_lights + 1]
             ELSE [R EXCEPT !.stack = Tail(R.stack),
                            !.num_lights = R.num_lights + 1,
                            !.L = accum_light_contribution(R.L, in, tp, One),
                            !.calls = Append(R.calls,
                                [offset |-> f.offset, light |-> node.distribution_id,
                                 randu |-> f.randu, randv |-> f.randv,
                                 pdf |-> ls_pdf, scale |-> One])]
    ELSE [R EXCEPT !.stack = Tail(R.stack)]

\* the split branch: both children, left first
\* going down both children with the scale factor shared out between them
visit_both_halved(R, f, node) ==
    [R EXCEPT !.stack =
        <<Frame(child_offsetL(f.offset), f.randu, f.randv, fmul(F(1, 2), f.pdf_factor),
                TRUE, f.lo, f.hi),
          Frame(child_offsetR(node.secondChildOffset), f.randu, f.randv,
                fmul(F(1, 2), f.pdf_factor), TRUE, f.lo, f.hi)>>
        \o Tail(R.stack)]

\* going down both children without letting them split
visit_both_no_propagate(R, f, node) ==
    [R EXCEPT !.stack =
        <<Frame(child_offsetL(f.offset), f.randu, f.randv, f.pdf_factor, FALSE, f.lo, f.hi),
          Frame(child_offsetR(node.secondChildOffset), f.randu, f.randv, f.pdf_factor,
                FALSE, f.lo, f.hi)>>
        \o Tail(R.stack)]

\* going down the left child twice and the right child never
visit_both_left_twice(R, f, node) ==
    [R EXCEPT !.stack =
        <<Frame(child_offsetL(f.offset), f.randu, f.randv, f.pdf_factor, TRUE, f.lo, f.hi),
          Frame(child_offsetL(f.offset), f.randu, f.randv, f.pdf_factor, TRUE, f.lo, f.hi)>>
        \o Tail(R.stack)]

\* going down both children, the right one first
visit_both_right_first(R, f, node) ==
    [R EXCEPT !.stack =
        <<Frame(child_offsetR(node.secondChildOffset), f.randu, f.randv, f.pdf_factor,
                TRUE, f.lo, f.hi),
          Frame(child_offsetL(f.offset), f.randu, f.randv, f.pdf_factor, TRUE, f.lo, f.hi)>>
        \o Tail(R.stack)]

visit_both(R, f, node) ==
    [R EXCEPT !.stack =
        <<Frame(child_offsetL(f.offset), f.randu, f.randv, f.pdf_factor, TRUE, f.lo, f.hi),
          Frame(child_offsetR(node.secondChildOffset), f.randu, f.randv, f.pdf_factor,
                TRUE, f.lo, f.hi)>>
        \o Tail(R.stack)]

\* the stochastic branch with P_L computed: the left child if randu <= P_L,
\* else the right one; mid divides the frame's interval of initial randu
visit_child(R, f, node, in, P_L, mid) ==
    IF going_left(f.randu, P_L)
    THEN [R EXCEPT !.stack =
            <<Frame(child_offsetL(f.offset), rescale_left(f.randu, P_L), f.randv,
                    pdf_factor_left(f.pdf_factor, P_L), FALSE, f.lo, mid)>>
            \o Tail(R.stack)]
    ELSE [R EXCEPT !.stack =
            <<Frame(child_offsetR(node.secondChildOffset),
                    rescale_right(f.randu, in.I_L, in.I_R), f.randv,
                    pdf_factor_right(f.pdf_factor, P_L), FALSE, mid, f.hi)>>
            \o Tail(R.stack)]

\* the stochastic branch: one child, or none
visit_one(R, f, node, in) ==
    IF both_zero(in.I_L, in.I_R)
    THEN [R EXCEPT !.stack = Tail(R.stack),
                   !.num_lights_fail = R.num_lights_fail + 1,
                   !.lost = fadd(R.lost, f.pdf_factor)]
    ELSE visit_child(R, f, node, in, calc_P_L(in.I_L, in.I_R),
                     fadd(f.lo, fmul(fsub(f.hi, f.lo), calc_P_L(in.I_L, in.I_R))))

\* one invocation: the frame on top of R.stack
accum_light_tree_contribution(kg, R, in, P, tp) ==
    LET f    == Head(R.stack)
        node == update_parent_node(kg, f.offset)
        V    == [R EXCEPT !.visited = Append(R.visited, f.offset)]
    IN  IF is_leaf(node) THEN visit_leaf(V, f, node, in, tp)
        ELSE IF go_down_both(kg, f.can_split, P, f.offset) THEN visit_both(V, f, node)
        ELSE visit_one(V, f, node, in)

(***************************************************************************)
(* Light trees for Init.  The tree is built outside this code; here it is  *)
(* aggregated bottom-up from its emitters: a cluster's energy and emitter  *)
(* count are the sums over its emitters, its bounding box the union, its   *)
(* energy variance E[e^2] - E[e]^2.  Node k of the preorder layout sits at *)
(* offset 4*k, its left child right behind it.                             *)
(***************************************************************************)
MaxLeaves == 3

MaxCoord == 3

fmin(x, y) == IF fle(x, y) THEN x ELSE y

fmax(x, y) == IF fle(x, y) THEN y ELSE x

Cluster(bmin, bmax, energy, n, e2) ==
    [bmin |-> bmin, bmax |-> bmax, energy |-> energy, n |-> n, e2 |-> e2]

Union2(l, r) ==
    Cluster(<<fmin(l.bmin[1], r.bmin[1]), fmin(l.bmin[2], r.bmin[2]), fmin(l.bmin[3], r.bmin[3])>>,
            <<fmax(l.bmax[1], r.bmax[1]), fmax(l.bmax[2], r.bmax[2]), fmax(l.bmax[3], r.bmax[3])>>,
            fadd(l.energy, r.energy), l.n + r.n, fadd(l.e2, r.e2))

EnergyVariance(c) ==
    IF c.n = 0 THEN Zero
    ELSE LET mean == fdiv(c.energy, F(c.n, 1))
         IN  fsub(fdiv(c.e2, F(c.n, 1)), fmul(mean, mean))

NodeRows(c, secondChildOffset, distribution_id) ==
    << <<c.energy, secondChildOffset, distribution_id, c.n>>,
       <<c.bmin[1], c.bmin[2], c.bmin[3], c.bmax[1]>>,
       <<c.bmax[2], c.bmax[3], Zero, Zero>>,
       <<Zero, Zero, Zero, EnergyVariance(c)>> >>

\* every binary tree over the given leaves (in order), laid out from node k on
RECURSIVE Build(_, _)
Build(k, leaves) ==
    IF Len(leaves) = 1
    THEN {[agg |-> leaves[1], rows |-> NodeRows(leaves[1], -1, k)]}
    ELSE UNION {
           {[agg  |-> Union2(l.agg, r.agg),
             rows |-> NodeRows(Union2(l.agg, r.agg), k + 2 * i, -1) \o l.rows \o r.rows] :
               l \in Build(k + 1, SubSeq(leaves, 1, i)),
               r \in Build(k + 2 * i, SubSeq(leaves, i + 1, Len(leaves)))} :
           i \in 1..(Len(leaves) - 1)}

Pt(x, y, z) == make_float3(F(x, 1), F(y, 1), F(z, 1))

\* the traversal's leaves: n unit-energy emitters at one point of the x axis,
\* the first leaf at x = 2 and the others at x = 4; n # 1 is a leaf the
\* traversal does not handle
LeafEmitterCounts == {0, 1, 2}

LeafAt(j, n) == Cluster(Pt(IF j = 1 THEN 2 ELSE 4, 0, 0), Pt(IF j = 1 THEN 2 ELSE 4, 0, 0),
                        F(n, 1), n, F(n, 1))

\* the emitter counts of m leaves: at most one leaf is not a single emitter
EmitterCounts(m) ==
    {ns \in [1..m -> LeafEmitterCounts] : Cardinality({j \in 1..m : ns[j] # 1}) <= 1}

Trees ==
    UNION {UNION {{t.rows : t \in Build(0, [j \in 1..m |-> LeafAt(j, ns[j])])} :
                  ns \in EmitterCounts(m)} :
           m \in 1..MaxLeaves}

Thresholds == {Zero, F(3, 4), One}

ShadingPoints == {Pt(0, 0, 0), Pt(3, 0, 0)}

RandUs == {Zero, F(1, 10), F(1, 2), F(3, 4), F(9, 10)}

RandVs == {F(1, 4)}

GroupProbs == {F(1, 2)}

Throughputs == {F(1, 2)}

\* what calc_node_importance() may return for a child
Importances == {Zero, One, F(3, 1)}

\* what the light sampler, direct_emission() and shadow_blocked() may return
LeafInputs ==
    [I_L : {Zero}, I_R : {Zero}, ls_pdf : {Zero, F(1, 2)}, emission : BOOLEAN,
     blocked : BOOLEAN, L_light : {F(2, 1)}, shadow : {F(1, 2)}]

ChildInputs ==
    [I_L : Importances, I_R : Importances, ls_pdf : {Zero}, emission : {FALSE},
     blocked : {FALSE}, L_light : {Zero}, shadow : {Zero}]

NoInput == [I_L |-> Zero, I_R |-> Zero, ls_pdf |-> Zero, emission |-> FALSE,
            blocked |-> FALSE, L_light |-> Zero, shadow |-> Zero]

EmptyRadiance == [direct |-> Zero, path_total |-> Zero, shadow |-> Zero]

\* a path not yet bounced, a ray not yet set up, no concurrent paths
NoState == [bounce |-> 0, ray_pdf |-> Zero, min_ray_pdf |-> Zero, ray_t |-> Zero,
            volume_stack |-> <<>>]

NoRay == [P |-> <<Zero, Zero, Zero>>, D |-> "none", t |-> Zero]

NoPaths == <<>>

TwinLights == 1

TwinFails == 2

\* what a step did: the invocation's frame, the values it read, split()'s answer
Event(kind, f, in, sp) == [kind |-> kind, f |-> f, in |-> in, split |-> sp]

NoFrame == Frame(0, Zero, Zero, Zero, FALSE, Zero, Zero)

\* KernelGlobals: the read-only scene data
KG == [light_tree_nodes |-> light_tree_nodes, splitting_threshold |-> splitting_threshold]

\* the traversal's own state as one record, and the same for the twin
Cur == [stack |-> stack, L |-> L, num_lights |-> num_lights,
        num_lights_fail |-> num_lights_fail, calls |-> calls, visited |-> visited,
        lost |-> lost]

Install(R) ==
    /\ stack' = R.stack
    /\ L' = R.L
    /\ num_lights' = R.num_lights
    /\ num_lights_fail' = R.num_lights_fail
    /\ calls' = R.calls
    /\ visited' = R.visited
    /\ lost' = R.lost

(***************************************************************************)
(* Spec: accum_light_tree_contribution(kg, randu, randv, 0, group_prob,    *)
(* true, throughput, L, ...) from the root, as                             *)
(* kernel_branched_path_surface_connect_light() starts it.                 *)
(***************************************************************************)
Init ==
    /\ splitting_threshold \in Thresholds
    /\ light_tree_nodes \in Trees
    /\ sd_P \in ShadingPoints
    /\ throughput \in Throughputs
    /\ u0 \in RandUs
    /\ pdf0 \in GroupProbs
    /\ \E randv \in RandVs : stack = <<Frame(0, u0, randv, pdf0, TRUE, Zero, One)>>
    /\ L = EmptyRadiance
    /\ num_lights = 0
    /\ num_lights_fail = 0
    /\ calls = <<>>
    /\ visited = <<>>
    /\ lost = Zero
    /\ ev = Event("init", NoFrame, NoInput, FALSE)
    /\ twin = [stack |-> stack, L |-> L, num_lights |-> TwinLights,
               num_lights_fail |-> TwinFails, calls |-> <<>>, visited |-> <<>>,
               lost |-> Zero]
    /\ use_light_bvh = TRUE
    /\ state = NoState
    /\ ray = NoRay
    /\ paths = NoPaths

\* what the traversal and split() only read, or do not touch at all
\* a direct-lighting step that counts as a bounce of the path
Static_counting_a_bounce ==
    /\ UNCHANGED <<splitting_threshold, light_tree_nodes, sd_P, throughput, u0, pdf0,
                   use_light_bvh, ray, paths>>
    /\ state' = [state EXCEPT !.bounce = state.bounce + 1]

Static ==
    UNCHANGED <<splitting_threshold, light_tree_nodes, sd_P, throughput, u0, pdf0,
                use_light_bvh, state, ray, paths>>

\* the twin takes the same step on the same inputs, when it has one to take
TwinStep(in) ==
    twin' = IF twin.stack = <<>> THEN twin
            ELSE accum_light_tree_contribution(KG, twin, in, sd_P, throughput)

\* an invocation that arrives at a leaf
TraverseLeaf ==
    /\ stack # <<>>
    /\ is_leaf(update_parent_node(KG, Head(stack).offset))
    /\ \E in \in LeafInputs :
         /\ Install(accum_light_tree_contribution(KG, Cur, in, sd_P, throughput))
         /\ TwinStep(in)
         /\ ev' = Event("leaf", Head(stack), in, FALSE)
    /\ Static

\* an invocation at an interior node that goes down both children
TraverseBoth ==
    /\ stack # <<>>
    /\ ~is_leaf(update_parent_node(KG, Head(stack).offset))
    /\ go_down_both(KG, Head(stack).can_split, sd_P, Head(stack).offset)
    /\ Install(accum_light_tree_contribution(KG, Cur, NoInput, sd_P, throughput))
    /\ TwinStep(NoInput)
    /\ ev' = Event("both", Head(stack), NoInput, TRUE)
    /\ Static

\* an invocation at an interior node that goes down one child, or none
TraverseOne ==
    /\ stack # <<>>
    /\ ~is_leaf(update_parent_node(KG, Head(stack).offset))
    /\ ~go_down_both(KG, Head(stack).can_split, sd_P, Head(stack).offset)
    /\ \E in \in ChildInputs :
         /\ Install(accum_light_tree_contribution(KG, Cur, in, sd_P, throughput))
         /\ TwinStep(in)
         /\ ev' = Event("one", Head(stack), in, FALSE)
    /\ Static

Next == TraverseLeaf \/ TraverseBoth \/ TraverseOne

Spec == Init /\ [][Next]_vars

(***************************************************************************)
(* SpecSplit: split(kg, P, 0) on the root of a two-emitter cluster, over   *)
(* bounding boxes [0, bmax], shading points, emitter energies and          *)
(* thresholds; the geometry is kept to points where sqrt is rational.      *)
(***************************************************************************)
Points == {Pt(x, y, z) : x \in 0..MaxCoord, y \in 0..MaxCoord, z \in 0..MaxCoord}

EmitterEnergies == {One, F(3, 1), F(9, 1)}

SplitThresholds == {Zero, F(1, 2), F(3, 4), One}

Emitter(p, e) == Cluster(p, p, e, 1, fmul(e, e))

SplitTrees ==
    UNION {{t.rows : t \in Build(0, <<Emitter(Pt(0, 0, 0), e1), Emitter(bmax, e2)>>)} :
           <<bmax, e1, e2>> \in Points \X EmitterEnergies \X EmitterEnergies}

InitSplit ==
    /\ splitting_threshold \in SplitThresholds
    /\ light_tree_nodes \in SplitTrees
    /\ HasRationalRoot(split_radius_squared(KG, 0))
    /\ sd_P \in Points
    /\ HasRationalRoot(split_dist_squared(KG, sd_P, 0))
    /\ throughput = One
    /\ u0 = Zero
    /\ pdf0 = One
    /\ stack = <<>>
    /\ L = EmptyRadiance
    /\ num_lights = 0
    /\ num_lights_fail = 0
    /\ calls = <<>>
    /\ visited = <<>>
    /\ lost = Zero
    /\ ev = Event("init", NoFrame, NoInput, FALSE)
    /\ twin = Cur
    /\ use_light_bvh = TRUE
    /\ state = NoState
    /\ ray = NoRay
    /\ paths = NoPaths

\* split(kg, sd->P, 0)
SplitCall ==
    /\ ev.kind = "init"
    /\ ev' = Event("split", NoFrame, NoInput, split(KG, sd_P, 0))
    /\ UNCHANGED <<stack, L, num_lights, num_lights_fail, calls, visited, lost, twin>>
    /\ Static

NextSplit == SplitCall

SpecSplit == InitSplit /\ [][NextSplit]_vars

(***************************************************************************)
(* Properties of split() (SpecSplit)                                       *)
(***************************************************************************)
StrictlyBetween(t) == flt(Zero, t) /\ flt(t, One)

\* the bounding sphere of the claims: centre = bbox midpoint, radius^2 = the
\* squared distance from the centre to the bbox max corner
SphereCentre(off) ==
    v_scale(F(1, 2), v_add(split_bboxMin(KG, off), split_bboxMax(KG, off)))

SphereRadius2(off) == len_squared(v_sub(split_bboxMax(KG, off), SphereCentre(off)))

SphereDist2(off) == len_squared(v_sub(sd_P, SphereCentre(off)))

InsideSphere(off) == fle(SphereDist2(off), SphereRadius2(off))

\* C1: whatever the node and the shading point, split() answers false when
\* the splitting threshold is 0 and true when it is 1.
C1_ThresholdShortCircuit ==
    ev.kind = "split" =>
        /\ (feq(splitting_threshold, Zero) => ~ev.split)
        /\ (feq(splitting_threshold, One) => ev.split)

\* split() was asked with threshold 1 about a cluster the shading point is
\* outside of
C1_Witness ==
    /\ ev.kind = "split"
    /\ feq(splitting_threshold, One)
    /\ ~InsideSphere(0)
    /\ ev.split

\* C2: with a threshold strictly between 0 and 1, a shading point inside the
\* node's bounding sphere makes split() answer true, whatever the node's
\* energy, energy variance and emitter count.
C2_InsideSphereSplits ==
    (ev.kind = "split" /\ StrictlyBetween(splitting_threshold) /\ InsideSphere(0))
        => ev.split

\* split() answered for a point strictly inside the sphere of a low-energy cluster
C2_Witness ==
    /\ ev.kind = "split"
    /\ StrictlyBetween(splitting_threshold)
    /\ flt(SphereDist2(0), SphereRadius2(0))
    /\ kernel_tex_fetch(light_tree_nodes, 0)[1] = F(2, 1)
    /\ ev.split

\* the tree with every emitter energy multiplied by c: a cluster's energy
\* scales by c and its energy variance by c^2
ScaleEnergies(kg, c) ==
    [kg EXCEPT !.light_tree_nodes =
        [i \in 1..Len(kg.light_tree_nodes) |->
            LET row == kg.light_tree_nodes[i]
            IN  IF i % 4 = 1 THEN <<fmul(c, row[1]), row[2], row[3], row[4]>>
                ELSE IF i % 4 = 0 THEN <<row[1], row[2], row[3], fmul(fmul(c, c), row[4])>>
                ELSE row]]

\* C8: outside the bounding sphere (a single-point bounding box included)
\* the variance split() computes is a number, is not negative, and grows
\* with the emitter energies, so that the score falls monotonically.
C8_VarianceWellDefined ==
    (ev.kind = "split" /\ StrictlyBetween(splitting_threshold) /\ ~InsideSphere(0)) =>
        LET variance == split_variance(KG, sd_P, 0)
        IN  /\ ~is_nan(variance)
            /\ fle(Zero, variance)
            /\ \A c \in {F(2, 1), F(3, 1)} :
                   fle(variance, split_variance(ScaleEnergies(KG, c), sd_P, 0))

(***************************************************************************)
(* Properties of the traversal (Spec)                                      *)
(***************************************************************************)
\* the last step was a stochastic choice that found an importance to follow
ChoiceMade ==
    /\ ev.kind = "one"
    /\ ~(feq(ev.in.I_L, Zero) /\ feq(ev.in.I_R, Zero))

InUnit(u) == fle(Zero, u) /\ flt(u, One)

\* C3: after a stochastic left/right choice made with a randu in [0,1), the
\* rescaled randu handed to the chosen child is in [0,1) again.
C3_RescaledInUnit ==
    (ChoiceMade /\ InUnit(ev.f.randu)) => (stack # <<>> /\ InUnit(Head(stack).randu))

\* a frame's scale factor is the initial one times the measure of its
\* interval of initial randu values; the randu the traversal started with
\* lies in that interval, and the frame's randu is its position in it
ScaleIsMeasure(f) ==
    /\ f.pdf_factor = fmul(pdf0, fsub(f.hi, f.lo))
    /\ fle(f.lo, u0)
    /\ fle(u0, f.hi)
    /\ (flt(f.lo, f.hi) => f.randu = fdiv(fsub(u0, f.lo), fsub(f.hi, f.lo)))

AllLeavesSingle ==
    \A k \in 0..((Len(light_tree_nodes) \div 4) - 1) :
        LET node == update_parent_node(KG, 4 * k)
        IN  is_leaf(node) => single_emitter(node)

LeafSampled(e, kg) == e.kind = "leaf" /\ single_emitter(update_parent_node(kg, e.f.offset))

\* C5: a single-emitter leaf whose light sample has pdf * scale factor == 0
\* makes no accum_light_contribution call and leaves the accumulator alone.
C5_ZeroPdfNoContribution ==
    [][(LeafSampled(ev', KG) /\ feq(fmul(ev'.in.ls_pdf, ev'.f.pdf_factor), Zero))
          => (calls' = calls /\ L' = L)]_vars

\* a leaf was sampled with pdf 0 where direct_emission() would have succeeded
C5_Witness ==
    /\ LeafSampled(ev, KG)
    /\ feq(ev.in.ls_pdf, Zero)
    /\ flt(Zero, ev.f.pdf_factor)
    /\ ev.in.emission
    /\ num_lights = 1
    /\ calls = <<>>

\* C6: a non-degenerate light sample whose shadow ray is occluded leaves the
\* visible channels alone and adds throughput * scale * L_light to the
\* total-light channel.
C6_OccludedOnlyTotal ==
    [][(/\ LeafSampled(ev', KG)
        /\ Len(calls') = Len(calls) + 1
        /\ ev'.in.emission
        /\ ev'.in.blocked)
          => /\ L'.direct = L.direct
             /\ L'.shadow = L.shadow
             /\ L'.path_total =
                  fadd(L.path_total,
                       fmul(fmul(throughput, calls'[Len(calls')].scale), ev'.in.L_light))]_vars

\* an occluded sample followed a visible one
C6_Witness ==
    /\ LeafSampled(ev, KG)
    /\ ev.in.emission
    /\ ev.in.blocked
    /\ Len(calls) = 2
    /\ calls[2].offset = ev.f.offset
    /\ flt(Zero, L.direct)
    /\ flt(L.direct, L.path_total)

\* C7: a stochastic choice goes left with u/P_L and scale*P_L when u <= P_L,
\* and right with (u*(I_L+I_R) - I_L)/I_R and scale*(1-P_L) otherwise; with
\* I_L = 3, I_R = 1, u = 0.1 goes left with 0.1/0.75 and u = 0.9 right with 0.6.
C7_StochasticDescent ==
    ChoiceMade =>
        LET I_L   == ev.in.I_L
            I_R   == ev.in.I_R
            u     == ev.f.randu
            scale == ev.f.pdf_factor
            P_L   == fdiv(I_L, fadd(I_L, I_R))
            left  == ev.f.offset + 4
            right == 4 * kernel_tex_fetch(light_tree_nodes, ev.f.offset)[2]
        IN  /\ stack # <<>>
            /\ IF fle(u, P_L)
               THEN /\ Head(stack).offset = left
                    /\ Head(stack).randu = fdiv(u, P_L)
                    /\ Head(stack).pdf_factor = fmul(scale, P_L)
               ELSE /\ Head(stack).offset = right
                    /\ Head(stack).randu = fdiv(fsub(fmul(u, fadd(I_L, I_R)), I_L), I_R)
                    /\ Head(stack).pdf_factor = fmul(scale, fsub(One, P_L))
            /\ (I_L = F(3, 1) /\ I_R = One /\ u = F(1, 10)) =>
                   (Head(stack).offset = left /\ Head(stack).randu = F(2, 15))
            /\ (I_L = F(3, 1) /\ I_R = One /\ u = F(9, 10)) =>
                   (Head(stack).offset = right /\ Head(stack).randu = F(3, 5))

\* the example of the claim: u = 0.9 went right and became 0.6
C7_Witness ==
    /\ ChoiceMade
    /\ ev.in.I_L = F(3, 1)
    /\ ev.in.I_R = One
    /\ ev.f.randu = F(9, 10)
    /\ Head(stack).randu = F(3, 5)
    /\ Head(stack).pdf_factor = fmul(ev.f.pdf_factor, F(1, 4))

\* C9: a stochastic choice that finds both importances zero counts one
\* failure, goes down neither child, and leaves calls and accumulator alone.
C9_BothZeroAborts ==
    [][(ev'.kind = "one" /\ feq(ev'.in.I_L, Zero) /\ feq(ev'.in.I_R, Zero))
          => /\ num_lights_fail' = num_lights_fail + 1
             /\ num_lights' = num_lights
             /\ stack' = Tail(stack)
             /\ calls' = calls
             /\ L' = L]_vars

\* a branch was aborted after a light had been connected
C9_Witness ==
    /\ ev.kind = "one"
    /\ feq(ev.in.I_L, Zero)
    /\ feq(ev.in.I_R, Zero)
    /\ num_lights_fail = 1
    /\ Len(calls) = 1

\* C10: the traversal whose counters start at (TwinLights, TwinFails) is, at
\* every step, where the one whose counters start at (0, 0) is: same pending
\* invocations, same nodes visited, same calls, same accumulator.
C10_CountersDoNotMatter ==
    /\ twin.stack = stack
    /\ twin.visited = visited
    /\ twin.calls = calls
    /\ twin.L = L
    /\ twin.num_lights = num_lights + TwinLights
    /\ twin.num_lights_fail = num_lights_fail + TwinFails

\* a finished traversal that connected a light and aborted a branch
C10_Witness ==
    /\ stack = <<>>
    /\ Len(calls) >= 1
    /\ num_lights_fail >= 1
    /\ twin.num_lights # num_lights

(***************************************************************************)
(* The leaf branch on a leaf the tree builder should not have produced     *)
(***************************************************************************)
\* the node at this offset is a leaf that holds no emitter
ZeroEmitterLeaf(kg, node_offset) ==
    /\ is_leaf(update_parent_node(kg, node_offset))
    /\ update_parent_node(kg, node_offset).num_emitters = 0

\* C11: no invocation that arrives at a leaf with zero emitters runs to its
\* return; the traversal stops there with a failed precondition.  (visited
\* lists the invocations that ran to their end.)
C11_MalformedLeafIsFatal ==
    \A i \in 1..Len(visited) : ~ZeroEmitterLeaf(KG, visited[i])

(***************************************************************************)
(* kernel_path_surface_bounce() and kernel_branched_path_surface_bounce(): *)
(* one bounce per step.  B is the caller's data the operation writes       *)
(* through its pointers: throughput, state and ray, and ret, its result.   *)
(* A BsdfEval is one number here, a label its two bits that matter.        *)
(***************************************************************************)
MaxBounce == 3

\* a finite number above every pdf of the model
FLT_MAX == F(1000000, 1)

fminf(x, y) == IF flt(y, x) THEN y ELSE x

bsdf_eval_is_zero(bsdf_eval) == feq(bsdf_eval, Zero)

\* the zero test without the BsdfEval
bsdf_absorbed_pdf_only(bsdf_pdf, bsdf_eval) == feq(bsdf_pdf, Zero)

\* bsdf_pdf == 0.0f || bsdf_eval_is_zero(&bsdf_eval)
bsdf_absorbed(bsdf_pdf, bsdf_eval) == feq(bsdf_pdf, Zero) \/ bsdf_eval_is_zero(bsdf_eval)

\* path_radiance_bsdf_bounce(): throughput *= bsdf_eval / bsdf_pdf
path_radiance_bsdf_bounce(tp, bsdf_eval, bsdf_pdf) == fmul(tp, fdiv(bsdf_eval, bsdf_pdf))

\* path_state_next(): the bounce count advances
path_state_next(st, label) == [st EXCEPT !.bounce = st.bounce + 1]

\* kernel_volume_stack_enter_exit(): leave the object's volume when inside it, else enter it
kernel_volume_stack_enter_exit(st) ==
    [st EXCEPT !.volume_stack = IF st.volume_stack = <<>> THEN <<"sd_object">> ELSE <<>>]

\* ray_offset(P, Ng): P moved off the surface to the side of Ng
ray_offset(P, Ng) == [from |-> P, side |-> Ng]

\* if(label & LABEL_TRANSMIT) kernel_volume_stack_enter_exit(...)
enter_exit_on_transmit(st, label) ==
    IF label.transmit THEN kernel_volume_stack_enter_exit(st) ELSE st

\* the regular variant's MIS state: only a bounce that is not transparent sets it
set_labels(st, label, bsdf_pdf) ==
    IF ~label.transparent
    THEN [st EXCEPT !.ray_pdf = bsdf_pdf,
                    !.ray_t = Zero,
                    !.min_ray_pdf = fminf(bsdf_pdf, st.min_ray_pdf)]
    ELSE st

\* the branched variant's MIS state
set_mis_state(st, bsdf_pdf) ==
    [st EXCEPT !.min_ray_pdf = fminf(bsdf_pdf, FLT_MAX),
               !.ray_pdf = bsdf_pdf,
               !.ray_t = Zero]

\* ray->t of the regular variant, from the bounce count path_state_next() left
clip_ray_t(st, t, ray_length) == IF st.bounce = 0 THEN fsub(t, ray_length) ELSE FLT_MAX

\* the regular variant's ray, st being the state after path_state_next()
setup_ray(r, st, P, label, omega_in, ray_length) ==
    [P |-> ray_offset(P, IF label.transmit THEN "-Ng" ELSE "Ng"),
     D |-> omega_in,
     t |-> clip_ray_t(st, r.t, ray_length)]

\* the SD_BSDF branch after the zero test, st being the state with its labels set
bounce_off_bsdf(B, st, P, in) ==
    [throughput |-> path_radiance_bsdf_bounce(B.throughput, in.bsdf_eval, in.bsdf_pdf),
     state      |-> enter_exit_on_transmit(path_state_next(st, in.label), in.label),
     ray        |-> setup_ray(B.ray, path_state_next(st, in.label), P, in.label,
                              in.omega_in, in.ray_length),
     ret        |-> TRUE]

\* the SD_HAS_ONLY_VOLUME branch once path_state_volume_next() has said yes
bounce_through_volume(B, st, P, in) ==
    [throughput |-> B.throughput,
     state      |-> kernel_volume_stack_enter_exit(st),
     ray        |-> [P |-> ray_offset(P, "-Ng"), D |-> B.ray.D,
                     t |-> clip_ray_t(st, B.ray.t, in.ray_length)],
     ret        |-> TRUE]

kernel_path_surface_bounce(B, P, in) ==
    IF in.sd_flag = "SD_BSDF"
    THEN IF bsdf_absorbed(in.bsdf_pdf, in.bsdf_eval)
         THEN [B EXCEPT !.ret = FALSE]
         ELSE bounce_off_bsdf(B, set_labels(B.state, in.label, in.bsdf_pdf), P, in)
    ELSE IF in.sd_flag = "SD_HAS_ONLY_VOLUME"
    THEN IF ~in.volume_next
         THEN [B EXCEPT !.ret = FALSE]
         ELSE bounce_through_volume(B, path_state_next(B.state, in.label), P, in)
    ELSE [B EXCEPT !.ret = FALSE]

\* the branched variant after the zero test, st being the state after path_state_next()
branched_bounce_off_bsdf(B, st, P, in) ==
    [throughput |-> path_radiance_bsdf_bounce(B.throughput, in.bsdf_eval, in.bsdf_pdf),
     state      |-> set_mis_state(enter_exit_on_transmit(st, in.label), in.bsdf_pdf),
     ray        |-> [P |-> ray_offset(P, IF in.label.transmit THEN "-Ng" ELSE "Ng"),
                     D |-> in.omega_in, t |-> FLT_MAX],
     ret        |-> TRUE]

kernel_branched_path_surface_bounce(B, P, in) ==
    IF bsdf_absorbed(in.bsdf_pdf, in.bsdf_eval)
    THEN [B EXCEPT !.ret = FALSE]
    ELSE branched_bounce_off_bsdf(B, path_state_next(B.state, in.label), P, in)

\* what the shader, the BSDF sampler and path_state_volume_next() may hand back
BsdfPdfs == {Zero, F(1, 4), F(1, 2), F(2, 1)}

BsdfEvals == {Zero, F(1, 2)}

Labels == [transmit : BOOLEAN, transparent : BOOLEAN]

BounceInputs ==
    [sd_flag : {"SD_BSDF", "SD_HAS_ONLY_VOLUME", "none"}, bsdf_pdf : BsdfPdfs,
     bsdf_eval : BsdfEvals, label : Labels, omega_in : {"omega_in"},
     ray_length : {One}, volume_next : BOOLEAN]

\* the caller's data as one record
CurBounce == [throughput |-> throughput, state |-> state, ray |-> ray, ret |-> TRUE]

\* what a bounce did: the values it was handed, the caller's data before it, its result
BounceEvent(kind, in, before, ret) ==
    [kind |-> kind, f |-> NoFrame, in |-> in, split |-> FALSE, before |-> before,
     ret |-> ret]

InstallBounce(B, kind, in) ==
    /\ throughput' = B.throughput
    /\ state' = B.state
    /\ ray' = B.ray
    /\ ev' = BounceEvent(kind, in, CurBounce, B.ret)

\* the path is ACTIVE: it has not been bounced yet, or its last bounce returned true
Active == ev.kind = "init" \/ (ev.kind \in {"bounce", "branched_bounce"} /\ ev.ret)

\* a path as path_state_init() and the camera leave it
InitBounce ==
    /\ splitting_threshold = Zero
    /\ light_tree_nodes = <<>>
    /\ sd_P \in ShadingPoints
    /\ throughput \in {One, F(1, 2)}
    /\ u0 = Zero
    /\ pdf0 = One
    /\ stack = <<>>
    /\ L = EmptyRadiance
    /\ num_lights = 0
    /\ num_lights_fail = 0
    /\ calls = <<>>
    /\ visited = <<>>
    /\ lost = Zero
    /\ ev = Event("init", NoFrame, NoInput, FALSE)
    /\ twin = Cur
    /\ use_light_bvh = FALSE
    /\ state = [bounce |-> 0, ray_pdf |-> Zero, min_ray_pdf |-> FLT_MAX, ray_t |-> Zero,
                volume_stack |-> <<>>]
    /\ ray = [P |-> ray_offset(sd_P, "camera"), D |-> "camera", t |-> FLT_MAX]
    /\ paths = NoPaths

BounceStatic ==
    UNCHANGED <<splitting_threshold, light_tree_nodes, sd_P, stack, L, num_lights,
                num_lights_fail, calls, visited, u0, pdf0, lost, twin, use_light_bvh,
                paths>>

SurfaceBounce ==
    /\ Active
    /\ state.bounce < MaxBounce
    /\ \E in \in BounceInputs :
         InstallBounce(kernel_path_surface_bounce(CurBounce, sd_P, in), "bounce", in)
    /\ BounceStatic

BranchedSurfaceBounce ==
    /\ Active
    /\ state.bounce < MaxBounce
    /\ \E in \in BounceInputs :
         /\ in.sd_flag = "SD_BSDF"
         /\ InstallBounce(kernel_branched_path_surface_bounce(CurBounce, sd_P, in),
                          "branched_bounce", in)
    /\ BounceStatic

NextBounce == SurfaceBounce \/ BranchedSurfaceBounce

SpecBounce == InitBounce /\ [][NextBounce]_vars

\* the last step was a bounce that sampled the BSDF
BsdfSampled == ev.kind = "branched_bounce" \/ (ev.kind = "bounce" /\ ev.in.sd_flag = "SD_BSDF")

\* C12: a bounce, regular or branched, whose sampled pdf is zero or whose
\* BsdfEval is zero returns false and leaves throughput, bounce count, min
\* and last pdf, ray and volume stack as they were.
C12_AbsorbedLeavesPathAlone ==
    (BsdfSampled /\ (feq(ev.in.bsdf_pdf, Zero) \/ feq(ev.in.bsdf_eval, Zero))) =>
        /\ ~ev.ret
        /\ throughput = ev.before.throughput
        /\ state = ev.before.state
        /\ ray = ev.before.ray

\* a branched bounce was absorbed for its zero BsdfEval alone, inside a
\* volume the path had entered two bounces before
C12_Witness ==
    /\ ev.kind = "branched_bounce"
    /\ feq(ev.in.bsdf_eval, Zero)
    /\ ev.in.bsdf_pdf = F(1, 2)
    /\ ev.in.label.transmit
    /\ ~ev.ret
    /\ state.bounce = 2
    /\ state.volume_stack # <<>>

\* the last step was a bounce that sampled the BSDF and returned true
BounceSucceeded == BsdfSampled /\ ev.ret

\* C20: after a successful bounce, regular or branched, the last-bounce pdf
\* is the sampled pdf, the min-seen pdf is the smaller of its previous value
\* and the sampled pdf, and the path is still ACTIVE.
C20_RunningMinimumPdf ==
    BounceSucceeded =>
        /\ state.ray_pdf = ev.in.bsdf_pdf
        /\ state.min_ray_pdf = fminf(ev.in.bsdf_pdf, ev.before.state.min_ray_pdf)
        /\ Active

(***************************************************************************)
(* kernel_branched_path_surface_connect_light() and                        *)
(* kernel_path_surface_connect_light(): the direct light connection of one *)
(* shading point.  C is what the call has done so far: the route it took,  *)
(* the traversal it started (stack), the accumulator and the calls made.   *)
(***************************************************************************)
MaxSamples == 2

\* use_light_bvh && use_splitting, use_splitting being splitting_threshold != 0.0f
use_light_tree(kg_use_light_bvh, threshold) == kg_use_light_bvh /\ ~feq(threshold, Zero)

\* one accum_light_contribution call outside the tree
connect_sample(C, ls, light, pdf, tp, scale, u, v) ==
    [C EXCEPT !.L = accum_light_contribution(C.L, ls, tp, scale),
              !.calls = Append(C.calls,
                  [offset |-> -1, light |-> light, randu |-> u, randv |-> v,
                   pdf |-> pdf, scale |-> scale])]

\* for(j = 0; j < num_samples; j++) if(sampled) accum_light_contribution(...)
RECURSIVE sample_loop(_, _, _, _, _, _, _, _, _)
sample_loop(C, j, in, light, pdf, tp, scale, u, v) ==
    IF j = 0 THEN C
    ELSE IF in.sampled
    THEN connect_sample(sample_loop(C, j - 1, in, light, pdf, tp, scale, u, v),
                        in.ls, light, pdf, tp, scale, u, v)
    ELSE C

\* the tree group: the traversal from the root, its counters at zero
connect_tree(C, u, v, group_prob) ==
    [C EXCEPT !.route = "tree",
              !.stack = <<Frame(0, u, v, group_prob, TRUE, Zero, One)>>]

\* a distant or background light whose pdf is left as sampled
connect_group_light_unscaled(C, in, tp, num_samples_adjust, u, v, group_prob) ==
    IF pdf_is_zero(in.ls.ls_pdf)
    THEN [C EXCEPT !.route = "group_light"]
    ELSE connect_sample([C EXCEPT !.route = "group_light"], in.ls, in.group,
                        in.ls.ls_pdf, tp, num_samples_adjust, u, v)

\* a distant or background light (or, past a compiled-out kernel_assert, the
\* light of an index never set): ls.pdf *= group_prob, zero returns
connect_group_light(C, in, tp, num_samples_adjust, u, v, group_prob) ==
    IF pdf_is_zero(combine_pdfs(in.ls.ls_pdf, group_prob))
    THEN [C EXCEPT !.route = "group_light"]
    ELSE connect_sample([C EXCEPT !.route = "group_light"], in.ls, in.group,
                        combine_pdfs(in.ls.ls_pdf, group_prob), tp, num_samples_adjust, u, v)

\* the light group drawn by light_group_distribution_sample()
connect_group(C, in, tp, num_samples_adjust, u, v, group_prob) ==
    IF in.group = "LIGHTGROUP_TREE" THEN connect_tree(C, u, v, group_prob)
    ELSE IF in.group \in {"LIGHTGROUP_DISTANT", "LIGHTGROUP_BACKGROUND"}
    THEN connect_group_light(C, in, tp, num_samples_adjust, u, v, group_prob)
    ELSE IF in.debug_build THEN [C EXCEPT !.route = "assert"]
    ELSE connect_group_light(C, in, tp, num_samples_adjust, u, v, group_prob)

\* lamp sampling: every lamp that has bounces left, num_samples times
connect_lamps(C, in, tp, num_samples_adjust, u, v) ==
    IF in.num_all_lights = 0 \/ in.reached_max_bounces THEN C
    ELSE sample_loop(C, in.num_samples, in, "lamp", in.ls.ls_pdf, tp,
                     fdiv(num_samples_adjust, F(in.num_samples, 1)), u, v)

\* mesh light sampling, C being the call after its lamps
connect_mesh_lights(C, kg_use_light_bvh, in, tp, num_samples_adjust, u, v) ==
    IF ~in.pdf_triangles THEN C
    ELSE IF kg_use_light_bvh /\ in.debug_build THEN [C EXCEPT !.route = "assert"]
    ELSE sample_loop(C, in.num_samples, in, "mesh",
                     IF in.num_all_lights # 0 THEN fmul(in.ls.ls_pdf, F(2, 1))
                     ELSE in.ls.ls_pdf,
                     tp, fdiv(num_samples_adjust, F(in.num_samples, 1)), u, v)

\* sample_all_lights
connect_all_lights(C, kg_use_light_bvh, in, tp, num_samples_adjust, u, v) ==
    connect_mesh_lights(connect_lamps([C EXCEPT !.route = "all_lights"], in, tp,
                                      num_samples_adjust, u, v),
                        kg_use_light_bvh, in, tp, num_samples_adjust, u, v)

\* sample one light at random
connect_one_light(C, in, tp, scale, u, v) ==
    IF in.sampled
    THEN connect_sample([C EXCEPT !.route = "one_light"], in.ls, "light", in.ls.ls_pdf,
                        tp, scale, u, v)
    ELSE [C EXCEPT !.route = "one_light"]

kernel_branched_path_surface_connect_light(kg_use_light_bvh, threshold, C, in, tp, num_samples_adjust, sample_all_lights, u, v, group_prob) ==
    IF ~in.has_eval THEN C
    ELSE IF use_light_tree(kg_use_light_bvh, threshold)
    THEN connect_group(C, in, tp, num_samples_adjust, u, v, group_prob)
    ELSE IF sample_all_lights
    THEN connect_all_lights(C, kg_use_light_bvh, in, tp, num_samples_adjust, u, v)
    ELSE connect_one_light(C, in, tp, num_samples_adjust, u, v)

kernel_path_surface_connect_light(kg_use_light_bvh, threshold, C, in, tp, u, v, group_prob) ==
    IF ~(in.use_direct_light /\ in.has_eval) THEN C
    ELSE IF in.shadow_catcher
    THEN kernel_branched_path_surface_connect_light(kg_use_light_bvh, threshold, C, in, tp,
                                                    One, TRUE, u, v, group_prob)
    ELSE connect_one_light(C, in, tp, One, u, v)

LightGroups ==
    {"LIGHTGROUP_TREE", "LIGHTGROUP_DISTANT", "LIGHTGROUP_BACKGROUND", "LIGHTGROUP_NONE"}

\* what the shader data, the integrator settings, the light group
\* distribution and the light samplers hand to one call
ConnectInputs ==
    [has_eval : BOOLEAN, use_direct_light : BOOLEAN, shadow_catcher : BOOLEAN,
     sample_all_lights : BOOLEAN, group : LightGroups, debug_build : BOOLEAN,
     num_all_lights : {0, 1}, reached_max_bounces : {FALSE}, num_samples : 1..MaxSamples,
     pdf_triangles : BOOLEAN, sampled : BOOLEAN,
     ls : {i \in LeafInputs : i.emission /\ ~i.blocked}]

\* the branched variant is handed sample_all_lights and reads neither
\* use_direct_light nor the shadow catcher flag
BranchedConnectInputs == {i \in ConnectInputs : i.use_direct_light /\ ~i.shadow_catcher}

\* the regular variant passes sample_all_lights = 1 on
PathConnectInputs == {i \in ConnectInputs : i.sample_all_lights}

\* a call that has not done anything yet
NoCall == [route |-> "return", stack |-> <<>>, L |-> L, calls |-> calls]

ConnectEvent(kind, in, route) ==
    [kind |-> kind, f |-> NoFrame, in |-> in, split |-> FALSE, route |-> route]

InstallConnect(C, kind, in) ==
    /\ stack' = C.stack
    /\ L' = C.L
    /\ calls' = C.calls
    /\ twin' = [twin EXCEPT !.stack = C.stack, !.L = C.L, !.calls = C.calls]
    /\ ev' = ConnectEvent(kind, in, C.route)
    /\ UNCHANGED <<num_lights, num_lights_fail, visited, lost>>
    /\ Static

\* a shading point about to be connected to the lights
InitConnect ==
    /\ splitting_threshold \in Thresholds
    /\ light_tree_nodes \in Trees
    /\ AllLeavesSingle
    /\ sd_P = Pt(0, 0, 0)
    /\ throughput \in Throughputs
    /\ u0 = F(3, 4)
    /\ pdf0 \in GroupProbs
    /\ stack = <<>>
    /\ L = EmptyRadiance
    /\ num_lights = 0
    /\ num_lights_fail = 0
    /\ calls = <<>>
    /\ visited = <<>>
    /\ lost = Zero
    /\ ev = Event("init", NoFrame, NoInput, FALSE)
    /\ twin = [stack |-> <<>>, L |-> L, num_lights |-> TwinLights,
               num_lights_fail |-> TwinFails, calls |-> <<>>, visited |-> <<>>,
               lost |-> Zero]
    /\ use_light_bvh \in BOOLEAN
    /\ state = NoState
    /\ ray = NoRay
    /\ paths = NoPaths

BranchedConnectLight ==
    /\ ev.kind = "init"
    /\ \E in \in BranchedConnectInputs : \E randv \in RandVs :
         InstallConnect(
             kernel_branched_path_surface_connect_light(
                 use_light_bvh, splitting_threshold, NoCall, in, throughput, One,
                 in.sample_all_lights, u0, randv, pdf0),
             "branched_connect", in)

ConnectLight ==
    /\ ev.kind = "init"
    /\ \E in \in PathConnectInputs : \E randv \in RandVs :
         InstallConnect(
             kernel_path_surface_connect_light(
                 use_light_bvh, splitting_threshold, NoCall, in, throughput, u0, randv,
                 pdf0),
             "connect", in)

NextConnect ==
    BranchedConnectLight \/ ConnectLight \/ TraverseLeaf \/ TraverseBoth \/ TraverseOne

SpecConnect == InitConnect /\ [][NextConnect]_vars

\* the last step was a direct light connection that went on to sample lights
\* with the light BVH enabled
ConnectedWithBvh ==
    /\ ev.kind \in {"branched_connect", "connect"}
    /\ use_light_bvh
    /\ ev.in.has_eval
    /\ (ev.kind = "connect" => ev.in.use_direct_light)

\* C13: with the light BVH enabled, whatever the splitting threshold, a
\* direct light connection never takes one of the non-hierarchical
\* fallbacks, and for the tree's light group it starts the traversal at the
\* root.
C13_BvhDelegatesToTree ==
    ConnectedWithBvh =>
        /\ ev.route \notin {"all_lights", "one_light"}
        /\ (ev.in.group = "LIGHTGROUP_TREE" =>
                (ev.route = "tree" /\ Len(stack) = 1 /\ stack[1].offset = 0))

(***************************************************************************)
(* Several paths traced at once.  Each path is a record of paths: the      *)
(* randu, shading point and throughput it was started with, what the scene *)
(* answers it (in), and run, its own traversal: the stack of its pending   *)
(* invocations, its accumulator and its counters.  The paths share the     *)
(* read-only scene data KG.  A step is one invocation of one path.         *)
(***************************************************************************)
NumPaths == 2

\* the paths alternate between the two shading points
PathPoint(p) == IF p % 2 = 1 THEN Pt(0, 0, 0) ELSE Pt(3, 0, 0)

PathRandUs == {F(1, 10), F(9, 10)}

\* what the scene answers at every node: the importances of the children,
\* the light sample, its emission and its shadow ray
SceneInputs ==
    {i \in [I_L : Importances, I_R : Importances, ls_pdf : {Zero, F(1, 2)},
            emission : {TRUE}, blocked : BOOLEAN, L_light : {F(2, 1)}, shadow : {F(1, 2)}] :
        /\ <<i.I_L, i.I_R>> \in {<<Zero, Zero>>, <<One, One>>, <<One, F(3, 1)>>}
        /\ (i.ls_pdf = Zero => ~i.blocked)}

\* a traversal about to start at the root
StartRun(u, v, group_prob) ==
    [stack |-> <<Frame(0, u, v, group_prob, TRUE, Zero, One)>>, L |-> EmptyRadiance,
     num_lights |-> 0, num_lights_fail |-> 0, calls |-> <<>>, visited |-> <<>>,
     lost |-> Zero]

\* every path handed the accumulator of path 1
shared_L_run(ps, p) == [ps[p].run EXCEPT !.L = ps[1].run.L]

\* the PathRadiance *L and the counters path p hands to its invocations: its own
own_run(ps, p) == ps[p].run

\* one invocation of path p
path_step(kg, ps, p) ==
    [ps EXCEPT ![p].run =
        accum_light_tree_contribution(kg, own_run(ps, p), ps[p].in, ps[p].P,
                                      ps[p].throughput)]

\* a path traced alone, from run to the end of its traversal
RECURSIVE TraceAlone(_, _, _)
TraceAlone(kg, path, run) ==
    IF run.stack = <<>> THEN run
    ELSE TraceAlone(kg, path,
             accum_light_tree_contribution(kg, run, path.in, path.P, path.throughput))

InitPaths ==
    /\ splitting_threshold \in Thresholds
    /\ light_tree_nodes \in Trees
    /\ AllLeavesSingle
    /\ Len(light_tree_nodes) \in {12, 20}
    /\ sd_P = Pt(0, 0, 0)
    /\ throughput \in Throughputs
    /\ u0 = Zero
    /\ pdf0 \in GroupProbs
    /\ stack = <<>>
    /\ L = EmptyRadiance
    /\ num_lights = 0
    /\ num_lights_fail = 0
    /\ calls = <<>>
    /\ visited = <<>>
    /\ lost = Zero
    /\ ev = Event("init", NoFrame, NoInput, FALSE)
    /\ twin = Cur
    /\ use_light_bvh = TRUE
    /\ state = NoState
    /\ ray = NoRay
    /\ \E in \in SceneInputs : \E us \in [1..NumPaths -> PathRandUs] : \E randv \in RandVs :
         paths = [p \in 1..NumPaths |->
                     [u0 |-> us[p], randv |-> randv, P |-> PathPoint(p),
                      throughput |-> throughput, in |-> in,
                      run |-> StartRun(us[p], randv, pdf0)]]

PathStep(p) ==
    /\ paths[p].run.stack # <<>>
    /\ paths' = path_step(KG, paths, p)
    /\ ev' = Event("path", Head(paths[p].run.stack), paths[p].in, FALSE)
    /\ UNCHANGED <<splitting_threshold, light_tree_nodes, sd_P, throughput, stack, L,
                   num_lights, num_lights_fail, calls, visited, u0, pdf0, lost, twin,
                   use_light_bvh, state, ray>>

NextPaths == \E p \in 1..NumPaths : PathStep(p)

SpecPaths == InitPaths /\ [][NextPaths]_vars

\* C14: whatever the interleaving of the paths' steps, a path ends where it
\* ends when traced alone from its start (same accumulator, counters, calls
\* and nodes visited), it keeps the inputs it was started with, and the
\* light tree is the one of the start.
C14_PathsDoNotInterfere ==
    \A p \in 1..NumPaths :
        /\ TraceAlone(KG, paths[p], paths[p].run)
             = TraceAlone(KG, paths[p], StartRun(paths[p].u0, paths[p].randv, pdf0))
        /\ paths[p].P = PathPoint(p)
        /\ paths[p].throughput = throughput

\* both paths are in the middle of their traversals, and the first has
\* connected a light, which left the two accumulators different
C14_Witness ==
    /\ paths[1].run.stack # <<>>
    /\ paths[1].run.calls # <<>>
    /\ paths[2].run.visited # <<>>
    /\ paths[2].run.stack # <<>>
    /\ paths[2].run.L # paths[1].run.L

(***************************************************************************)
(* Properties of the traversal's order and extent (Spec)                   *)
(***************************************************************************)
\* the offsets of the nodes of the subtree at node_offset
RECURSIVE Subtree(_, _)
Subtree(kg, node_offset) ==
    IF is_leaf(update_parent_node(kg, node_offset)) THEN {node_offset}
    ELSE {node_offset}
         \cup Subtree(kg, child_offsetL(node_offset))
         \cup Subtree(kg, child_offsetR(update_parent_node(kg, node_offset).secondChildOffset))

Leaves(kg, node_offset) ==
    {n \in Subtree(kg, node_offset) : is_leaf(update_parent_node(kg, n))}

Children(kg, node_offset) ==
    {child_offsetL(node_offset),
     child_offsetR(update_parent_node(kg, node_offset).secondChildOffset)}

Visited == {visited[i] : i \in 1..Len(visited)}

\* the positions in calls of the connections made for the leaves of a subtree
CallsBelow(kg, node_offset) ==
    {i \in 1..Len(calls) : calls[i].offset \in Subtree(kg, node_offset)}

\* the interior nodes a finished traversal went through without going down
\* both children: the nodes of its stochastic choices
ChoiceNodes(kg) ==
    {n \in Visited : /\ ~is_leaf(update_parent_node(kg, n))
                     /\ ~(Children(kg, n) \subseteq Visited)}

\* C15: a stochastic choice hands exactly one child an invocation with
\* can_split = false; invocations without can_split never go down both
\* children, so only the innermost pending invocation can be one of them,
\* and when the traversal is over at most one leaf below the node of a
\* choice has been visited and connected.
C15_ChoiceCommits ==
    /\ \A i \in 2..Len(stack) : stack[i].can_split
    /\ ChoiceMade =>
           /\ stack # <<>>
           /\ ~Head(stack).can_split
           /\ Head(stack).offset \in Children(KG, ev.f.offset)
    /\ ev.kind = "both" => ev.f.can_split
    /\ stack = <<>> =>
           \A n \in ChoiceNodes(KG) :
               /\ Cardinality(Leaves(KG, n) \cap Visited) <= 1
               /\ Cardinality(CallsBelow(KG, n)) <= 1

(***************************************************************************)
(* SpecCommit: the traversal of a tree of three unit emitters on the x     *)
(* axis, each of energy 5, two of them close to the shading point and one  *)
(* far from it.  At threshold 0.75 split() is false for the root and true  *)
(* for the cluster of the two close emitters.                              *)
(***************************************************************************)
FarLeafXs == <<1, 17, 19>>

FarPoint == Pt(20, 0, 0)

FarEnergy == 5

FarLeafAt(j) == Cluster(Pt(FarLeafXs[j], 0, 0), Pt(FarLeafXs[j], 0, 0), F(FarEnergy, 1), 1, F(FarEnergy * FarEnergy, 1))

FarTrees == {t.rows : t \in Build(0, [j \in 1..3 |-> FarLeafAt(j)])}

InitCommit ==
    /\ splitting_threshold \in Thresholds
    /\ light_tree_nodes \in FarTrees
    /\ sd_P = FarPoint
    /\ throughput \in Throughputs
    /\ u0 \in RandUs
    /\ pdf0 \in GroupProbs
    /\ \E randv \in RandVs : stack = <<Frame(0, u0, randv, pdf0, TRUE, Zero, One)>>
    /\ L = EmptyRadiance
    /\ num_lights = 0
    /\ num_lights_fail = 0
    /\ calls = <<>>
    /\ visited = <<>>
    /\ lost = Zero
    /\ ev = Event("init", NoFrame, NoInput, FALSE)
    /\ twin = [stack |-> stack, L |-> L, num_lights |-> TwinLights,
               num_lights_fail |-> TwinFails, calls |-> <<>>, visited |-> <<>>,
               lost |-> Zero]
    /\ use_light_bvh = TRUE
    /\ state = NoState
    /\ ray = NoRay
    /\ paths = NoPaths

SpecCommit == InitCommit /\ [][Next]_vars

\* a finished traversal chose at the root, then below it at a node that
\* split() would have split, and connected one light
C15_Witness ==
    /\ stack = <<>>
    /\ 0 \in ChoiceNodes(KG)
    /\ \E n \in ChoiceNodes(KG) : n # 0 /\ split(KG, sd_P, n)
    /\ Cardinality(Leaves(KG, 0) \cap Visited) = 1
    /\ Cardinality(CallsBelow(KG, 0)) = 1

\* the arguments of the call a frame stands for
CallArgs(f) == <<f.randu, f.randv, f.pdf_factor, f.can_split>>

\* C16: at a node that is split (can_split and split() both true) the
\* traversal goes on with the left child, then the right child, then what
\* was pending; both children get the parent's randu, randv and pdf_factor
\* and can_split = true; the radiance, both counters and the list of light
\* connections stay as they were, and no importance is drawn.
C16_SplitVisitsBoth ==
    [][(/\ stack # <<>>
        /\ ~is_leaf(update_parent_node(KG, Head(stack).offset))
        /\ Head(stack).can_split
        /\ split(KG, sd_P, Head(stack).offset))
       => /\ Len(stack') = Len(stack) + 1
          /\ stack'[1].offset = child_offsetL(Head(stack).offset)
          /\ stack'[2].offset
               = child_offsetR(update_parent_node(KG, Head(stack).offset).secondChildOffset)
          /\ CallArgs(stack'[1]) = <<Head(stack).randu, Head(stack).randv, Head(stack).pdf_factor, TRUE>>
          /\ CallArgs(stack'[2]) = <<Head(stack).randu, Head(stack).randv, Head(stack).pdf_factor, TRUE>>
          /\ SubSeq(stack', 3, Len(stack')) = Tail(stack)
          /\ L' = L
          /\ num_lights' = num_lights
          /\ num_lights_fail' = num_lights_fail
          /\ calls' = calls
          /\ ev'.kind = "both"
          /\ ev'.in = NoInput]_vars

\* a node below a split node was split in its turn, with a scale factor
\* other than 1, and both its children may split
C16_Witness ==
    /\ ev.kind = "both"
    /\ ev.f.offset # 0
    /\ ev.f.pdf_factor # One
    /\ Len(stack) >= 3
    /\ stack[1].can_split
    /\ stack[2].can_split

\* how often the traversal was called for a node
TimesVisited(node_offset) == Cardinality({i \in 1..Len(visited) : visited[i] = node_offset})

\* C17: with splitting threshold 1 (the root may split) and one emitter in
\* every leaf, every pending call and every leaf visit carries the initial
\* scale factor and may split, no node is visited twice, and a finished
\* traversal has visited every leaf exactly once and counted as many
\* sampled lights as the tree has leaves.
C17_ThresholdOneVisitsAll ==
    (feq(splitting_threshold, One) /\ AllLeavesSingle)
    => /\ \A i \in 1..Len(stack) : stack[i].pdf_factor = pdf0 /\ stack[i].can_split
       /\ ev.kind = "leaf" => ev.f.pdf_factor = pdf0
       /\ ev.kind # "one"
       /\ \A n \in Visited : TimesVisited(n) = 1
       /\ num_lights = Cardinality(Leaves(KG, 0) \cap Visited)
       /\ stack = <<>> => /\ Leaves(KG, 0) \subseteq Visited
                          /\ num_lights = Cardinality(Leaves(KG, 0))

\* a finished traversal of three single-emitter leaves at threshold 1 with
\* an initial scale factor other than 1
C17_Witness ==
    /\ feq(splitting_threshold, One)
    /\ AllLeavesSingle
    /\ stack = <<>>
    /\ Cardinality(Leaves(KG, 0)) = 3
    /\ num_lights = 3
    /\ pdf0 # One

\* the nodes at which the traversal went down both children
SplitNodes(kg) == {n \in Visited : ~is_leaf(update_parent_node(kg, n)) /\ Children(kg, n) \subseteq Visited}

\* the positions, in the order of the calls of the traversal, of the nodes of S
VisitIndex(S) == {i \in 1..Len(visited) : visited[i] \in S}

LeftSubtree(kg, n) == Subtree(kg, child_offsetL(n))

RightSubtree(kg, n) == Subtree(kg, child_offsetR(update_parent_node(kg, n).secondChildOffset))

\* C18: at a node that was split, every call of the traversal for a node of
\* the left subtree comes before every call for a node of the right subtree,
\* no call for the left subtree is pending once the right subtree is
\* entered, and the light connections are made in left-to-right order of
\* the leaves.
C18_LeftBeforeRight ==
    /\ \A n \in SplitNodes(KG) :
         /\ \A i \in VisitIndex(LeftSubtree(KG, n)), j \in VisitIndex(RightSubtree(KG, n)) : i < j
         /\ VisitIndex(RightSubtree(KG, n)) # {}
              => \A k \in 1..Len(stack) : stack[k].offset \notin LeftSubtree(KG, n)
         /\ \A i \in CallsBelow(KG, child_offsetL(n)),
               j \in CallsBelow(KG, child_offsetR(update_parent_node(KG, n).secondChildOffset)) : i < j
    /\ ev.kind = "both"
         => /\ Head(stack).offset = child_offsetL(ev.f.offset)
            /\ stack[2].offset = child_offsetR(update_parent_node(KG, ev.f.offset).secondChildOffset)

\* a finished traversal split the root and its left child, which has two
\* leaves, and connected a light at each of the three leaves
C18_Witness ==
    /\ stack = <<>>
    /\ {0, child_offsetL(0)} \subseteq SplitNodes(KG)
    /\ Len(calls) = 3
    /\ Cardinality({calls[i].offset : i \in 1..Len(calls)}) = 3

(***************************************************************************)
(* The split decision as a function of the threshold (SpecSplit)           *)
(***************************************************************************)
\* split() for the same node and point under another threshold
split_under(threshold) == split([KG EXCEPT !.splitting_threshold = threshold], sd_P, 0)

\* score^4 = 1 / (1 + sqrt(variance)), where the root is rational
Score4(variance) == frecip(fadd(One, fsqrt(variance)))

Pow4(x) == fmul(fmul(x, x), fmul(x, x))

\* C19: for a shading point outside the node's bounding sphere, split() with
\* a threshold strictly between 0 and 1 answers true exactly when the score
\* (1/(1+sqrt(variance)))^(1/4) is below the threshold (compared as
\* score^4 < threshold^4 where sqrt(variance) is rational; a NaN variance
\* gives a NaN score, below nothing), and an answer of true at one threshold
\* of [0, 1] is an answer of true at every greater one.
C19_MonotoneInThreshold ==
    (ev.kind = "split" /\ ~InsideSphere(0)) =>
        /\ (StrictlyBetween(splitting_threshold) /\ HasRationalRoot(split_variance(KG, sd_P, 0)))
             => (ev.split <=> flt(Score4(split_variance(KG, sd_P, 0)), Pow4(splitting_threshold)))
        /\ (StrictlyBetween(splitting_threshold) /\ is_nan(split_variance(KG, sd_P, 0)))
             => ~ev.split
        /\ ev.split = split_under(splitting_threshold)
        /\ \A t \in SplitThresholds :
             /\ (fle(splitting_threshold, t) /\ ev.split) => split_under(t)
             /\ (fle(t, splitting_threshold) /\ ~ev.split) => ~split_under(t)

\* split() answered true at threshold 0.75 for a point outside the sphere
\* of a cluster that it does not split at threshold 0.5
C19_Witness ==
    /\ ev.kind = "split"
    /\ ~InsideSphere(0)
    /\ splitting_threshold = F(3, 4)
    /\ ev.split
    /\ ~split_under(F(1, 2))

(***************************************************************************)
(* SpecAccum: accum_light_contribution() on its own, called up to MaxAccum *)
(* times on one accumulator with any scale.                                *)
(***************************************************************************)
MaxAccum == 2

\* direct_emission(kg, sd, emission_sd, ls, state, light_ray, L_light, ...):
\* false for a light sample of pdf 0, for a BSDF x light evaluation of zero
\* and for a sample the light termination (the `terminate` number) drops;
\* L_light = evaluation / ls->pdf is filled in before the last two tests
direct_emission(eval, ls_pdf, terminated) ==
    [emission |-> ~(feq(ls_pdf, Zero) \/ feq(eval, Zero) \/ terminated),
     L_light  |-> fdiv(eval, ls_pdf)]

\* the shadow rays one accum_light_contribution() call traces:
\* shadow_blocked() is called inside if(direct_emission(...)) only
shadow_rays(in) == IF in.emission THEN 1 ELSE 0

Evals == {Zero, One, F(3, 1)}

LightPdfs == {F(1, 2), F(2, 1)}

Transmittances == {F(1, 2), One}

Scales == {F(1, 2), One, F(2, 1)}

\* what direct_emission() and shadow_blocked() hand to one call
AccumInputs ==
    {[I_L |-> Zero, I_R |-> Zero, ls_pdf |-> ls_pdf,
      emission |-> direct_emission(eval, ls_pdf, terminated).emission,
      L_light |-> direct_emission(eval, ls_pdf, terminated).L_light,
      blocked |-> blocked, shadow |-> shadow] :
        eval \in Evals, ls_pdf \in LightPdfs, terminated \in BOOLEAN,
        blocked \in BOOLEAN, shadow \in Transmittances}

InitAccum ==
    /\ splitting_threshold = Zero
    /\ light_tree_nodes \in {t \in Trees : Len(t) = 4}
    /\ AllLeavesSingle
    /\ sd_P = Pt(0, 0, 0)
    /\ throughput \in {F(1, 2), F(3, 1)}
    /\ u0 = Zero
    /\ pdf0 = One
    /\ stack = <<>>
    /\ L = EmptyRadiance
    /\ num_lights = 0
    /\ num_lights_fail = 0
    /\ calls = <<>>
    /\ visited = <<>>
    /\ lost = Zero
    /\ ev = Event("init", NoFrame, NoInput, FALSE)
    /\ twin = Cur
    /\ use_light_bvh = FALSE
    /\ state = NoState
    /\ ray = NoRay
    /\ paths = NoPaths

\* accum_light_contribution(kg, sd, emission_sd, &ls, state, &light_ray,
\*                          &L_light, L, &is_lamp, terminate, throughput, scale)
AccumLightContribution ==
    /\ Len(calls) < MaxAccum
    /\ \E in \in AccumInputs, scale \in Scales :
         /\ L' = accum_light_contribution(L, in, throughput, scale)
         /\ calls' = Append(calls, [offset |-> -1, light |-> "light", randu |-> u0,
                                    randv |-> Zero, pdf |-> in.ls_pdf, scale |-> scale,
                                    shadow_rays |-> shadow_rays(in)])
         /\ ev' = Event("accum", NoFrame, in, FALSE)
    /\ UNCHANGED <<stack, num_lights, num_lights_fail, visited, lost, twin>>
    /\ Static

NextAccum == AccumLightContribution

SpecAccum == InitAccum /\ [][NextAccum]_vars

\* the last call's scale argument
LastScale(cs) == cs[Len(cs)].scale

\* C21: a call with a non-degenerate light sample (direct_emission() true,
\* L_light = BSDF x light evaluation / pdf) and an unoccluded shadow ray adds
\* throughput * scale * L_light * transmittance to the visible radiance, the
\* scale entering as one factor.
C21_VisibleGetsScaledOnce ==
    [][(calls' # calls /\ ev'.kind = "accum" /\ ev'.in.emission /\ ~ev'.in.blocked)
         => L'.direct =
              fadd(L.direct,
                   fmul(fmul(fmul(throughput, LastScale(calls')), ev'.in.L_light),
                        ev'.in.shadow))]_vars

\* a second call, with scale 1/2, pdf 2, evaluation 3 and transmittance
\* 1/2, raised a visible radiance that was not zero
C21_Witness ==
    /\ ev.kind = "accum"
    /\ Len(calls) = 2
    /\ ev.in.emission
    /\ ~ev.in.blocked
    /\ LastScale(calls) = F(1, 2)
    /\ ev.in.ls_pdf = F(2, 1)
    /\ ev.in.L_light = F(3, 2)
    /\ ev.in.shadow = F(1, 2)
    /\ flt(fmul(F(3, 8), throughput), L.direct)

\* C22: a call whose light sample is degenerate (direct_emission() false)
\* traces no shadow ray and leaves every channel of the radiance
\* accumulator as it was.
C22_DegenerateLeavesAccumulator ==
    [][(calls' # calls /\ ev'.kind = "accum" /\ ~ev'.in.emission)
         => /\ L' = L
            /\ calls'[Len(calls')].shadow_rays = 0]_vars

\* a degenerate sample whose L_light is not zero (the light termination
\* dropped it) came after a sample that had raised the total-light channel
C22_Witness ==
    /\ ev.kind = "accum"
    /\ Len(calls) = 2
    /\ ~ev.in.emission
    /\ flt(Zero, ev.in.L_light)
    /\ calls[2].shadow_rays = 0
    /\ calls[1].shadow_rays = 1
    /\ flt(Zero, L.path_total)

(***************************************************************************)
(* Counters, termination and frame of the traversal (Spec)                 *)
(***************************************************************************)
\* C23: the lights-sampled counter is the number of single-emitter leaves
\* whose light sample had a combined pdf other than zero and was handed to
\* accum_light_contribution; a leaf given up for a zero pdf is not counted.
C23_CounterCountsConnections ==
    num_lights = Len(calls)

\* the pending invocation on top of the stack runs: every step of Next is
\* such a step, and one is possible whenever an invocation is pending
RunPending == stack # <<>> /\ visited' = Append(visited, Head(stack).offset)

\* The traversal is sequential code: an invocation that is pending is run.
SpecLive == Init /\ [][Next]_vars /\ WF_visited(RunPending)

NodeOffsets(kg) == {4 * k : k \in 0..((Len(kg.light_tree_nodes) \div 4) - 1)}

\* every inner node's children lie behind it in the node array
ChildrenBehind(kg) ==
    \A n \in NodeOffsets(kg) :
        ~is_leaf(update_parent_node(kg, n)) =>
            \A c \in Children(kg, n) : c \in NodeOffsets(kg) /\ c > n

\* C24: on a tree whose children lie at larger offsets than their parents,
\* an invocation puts only children of its own node on the stack of pending
\* invocations, no node is visited twice, no more leaves are visited than
\* the tree has, and the traversal comes to its end.
C24_Terminates ==
    /\ [](ChildrenBehind(KG) =>
            /\ \A n \in Visited : TimesVisited(n) = 1
            /\ Visited \subseteq Subtree(KG, 0)
            /\ Cardinality({i \in 1..Len(visited) : is_leaf(update_parent_node(KG, visited[i]))})
                 <= Cardinality(Leaves(KG, 0)))
    /\ [][(ChildrenBehind(KG) /\ stack # <<>>) =>
            /\ Len(stack') >= Len(stack) - 1
            /\ \A i \in 1..(Len(stack') - (Len(stack) - 1)) :
                   stack'[i].offset \in Children(KG, Head(stack).offset)
            /\ SubSeq(stack', Len(stack') - Len(stack) + 2, Len(stack')) = Tail(stack)]_vars
    /\ <>(ChildrenBehind(KG) => stack = <<>>)

\* a traversal came to its end after visiting all five nodes of a tree of
\* three leaves
C24_Witness ==
    /\ stack = <<>>
    /\ ChildrenBehind(KG)
    /\ Cardinality(Leaves(KG, 0)) = 3
    /\ Len(visited) = 5

\* C25: a stochastic choice made with a randu in [0,1) between a child of
\* importance zero and a child of positive importance goes to the child of
\* positive importance, so the child's scale factor is not zero and its
\* randu is a number.
C25_NeverIntoZeroImportance ==
    (ChoiceMade /\ InUnit(ev.f.randu) /\ stack # <<>>) =>
        /\ (Head(stack).offset = child_offsetL(ev.f.offset) => flt(Zero, ev.in.I_L))
        /\ (Head(stack).offset # child_offsetL(ev.f.offset) => flt(Zero, ev.in.I_R))
        /\ (flt(Zero, ev.f.pdf_factor) => flt(Zero, Head(stack).pdf_factor))
        /\ ~is_nan(Head(stack).randu)

\* C26: an invocation at a leaf whose emitter count is not 1 returns; the
\* radiance accumulator, both counters and the list of light connections
\* are as before, and the pending invocations are the ones that were
\* pending.
C26_OtherLeafIsSkipped ==
    [][(/\ stack # <<>>
        /\ is_leaf(update_parent_node(KG, Head(stack).offset))
        /\ update_parent_node(KG, Head(stack).offset).num_emitters # 1)
       => /\ stack' = Tail(stack)
          /\ L' = L
          /\ num_lights' = num_lights
          /\ num_lights_fail' = num_lights_fail
          /\ calls' = calls
          /\ lost' = lost]_vars

\* a leaf of two emitters was skipped, with a light sample at hand that
\* would have contributed, after a leaf of one emitter had contributed and
\* with another invocation pending
C26_Witness ==
    /\ ev.kind = "leaf"
    /\ update_parent_node(KG, ev.f.offset).num_emitters = 2
    /\ flt(Zero, ev.in.ls_pdf)
    /\ ev.in.emission
    /\ ~ev.in.blocked
    /\ Len(calls) = 1
    /\ num_lights = 1
    /\ stack # <<>>

(***************************************************************************)
(* The light groups of the hierarchical mode (SpecConnect)                 *)
(***************************************************************************)
\* the last step was a call of kernel_branched_path_surface_connect_light
\* (made directly, or by kernel_path_surface_connect_light for a shadow
\* catcher) that took the hierarchical mode
HierarchicalCall ==
    /\ ev.kind \in {"branched_connect", "connect"}
    /\ ev.in.has_eval
    /\ (ev.kind = "connect" => (ev.in.use_direct_light /\ ev.in.shadow_catcher))
    /\ use_light_tree(use_light_bvh, splitting_threshold)

\* the tree group: nothing but the traversal pending at the root, with the
\* group probability as scale factor and free to split
TreeGroupHandled ==
    /\ ev.route = "tree"
    /\ Len(stack) = 1
    /\ Head(stack).offset = 0
    /\ Head(stack).randu = u0
    /\ Head(stack).pdf_factor = pdf0
    /\ Head(stack).can_split
    /\ calls = <<>>
    /\ L = EmptyRadiance

\* one light of the group: its pdf times the group probability, one light
\* connection unless that pdf is zero
GroupLightHandled ==
    /\ ev.route = "group_light"
    /\ stack = <<>>
    /\ Len(calls) <= 1
    /\ (feq(fmul(ev.in.ls.ls_pdf, pdf0), Zero) <=> calls = <<>>)
    /\ calls # <<>> => /\ calls[1].pdf = fmul(ev.in.ls.ls_pdf, pdf0)
                       /\ calls[1].scale = One
                       /\ L = accum_light_contribution(EmptyRadiance, ev.in.ls, throughput, One)

\* the assertion stops the call before anything is sampled
AssertionFailed ==
    /\ ev.route = "assert"
    /\ stack = <<>>
    /\ calls = <<>>
    /\ L = EmptyRadiance

DirectLightingStep(e) == e.kind \in {"leaf", "both", "one", "branched_connect", "connect"}

\* C28: a step of accum_light_tree_contribution, of
\* kernel_branched_path_surface_connect_light or of
\* kernel_path_surface_connect_light leaves the throughput, the path state
\* (bounce count, last and minimum pdf) and the ray as they were; and when
\* the shading point has no BSDF to evaluate, a connect step leaves the
\* radiance accumulator, the counters and the pending traversal as they
\* were too.
C28_DirectLightingFrame ==
    [][DirectLightingStep(ev') =>
          /\ throughput' = throughput
          /\ state' = state
          /\ ray' = ray
          /\ (ev'.kind \in {"branched_connect", "connect"} /\ ~ev'.in.has_eval)
                => /\ L' = L
                   /\ num_lights' = num_lights
                   /\ num_lights_fail' = num_lights_fail
                   /\ calls' = calls
                   /\ stack' = stack]_vars

\* a traversal started by a connect step came to its end with two leaves
\* sampled and a light connected: the accumulator and the lights-sampled
\* counter have changed, the throughput, the path state and the ray have not
C28_Witness ==
    /\ ev.kind = "leaf"
    /\ stack = <<>>
    /\ flt(Zero, L.direct)
    /\ num_lights >= 2
    /\ Len(calls) >= 1
    /\ throughput \in Throughputs
    /\ state = NoState
    /\ ray = NoRay
====
